---- MODULE Spec2Model ----
(***************************************************************************)
(* GeneralizedAssignment (src/assign.py): best-first exhaustive search     *)
(* over assignment states, with budget feasibility, the optional complete  *)
(* filter, plain and fair best tracking, and the final statistics.         *)
(***************************************************************************)
EXTENDS Integers, Sequences, FiniteSets, TLC

VARIABLES
    agents, tasks,              \* self.agents, self.tasks
    agent_budget, agent_cost,   \* the caller's budget and cost functions
    task_budget, task_cost,
    profit,                     \* the caller's profit function
    hard_assignment,            \* map agent -> set of tasks (empty map when falsy)
    complete, fair, verbose,    \* flags
    finished_assignments,       \* dict in insertion order: sequence of <<assignment, profit>>
    max_profit, fair_profit,    \* current bests
    open_set, closed_set,       \* the locals of assign()
    profits,                    \* the local dict assignment -> cached profit
    printed,                    \* the calls of print_assignment, in order
    stats,                      \* what print_stats reported (<<>> until it has run)
    pc                          \* "assign" while the search loop runs, then "done";
                                \* "error" once a KeyError has ended the run

vars == <<agents, tasks, agent_budget, agent_cost, task_budget, task_cost,
          profit, hard_assignment, complete, fair, verbose,
          finished_assignments, max_profit, fair_profit,
          open_set, closed_set, profits, printed, stats, pc>>

inputs == <<agents, tasks, agent_budget, agent_cost, task_budget, task_cost,
            profit, hard_assignment, complete, fair, verbose>>

----------------------------------------------------------------------------
(* Bounds and the problem instances the runs are started on                *)

MaxBudget == 2

AllAgents == {"a", "b", "c"}
AllTasks == {"t1", "t2"}
Pairs == AllAgents \X AllTasks

\* the default cost lambda a, t: 1
UnitCost == [pr \in Pairs |-> 1]

\* a cost table with a free pair and a pair of cost 2
VarCost ==
    [pr \in Pairs |->
        IF pr = <<"a", "t1">> THEN 0
        ELSE IF pr = <<"a", "t2">> THEN 2
        ELSE 1]

\* <<agent_cost, task_cost>>
CostChoices == {<<UnitCost, UnitCost>>, <<VarCost, UnitCost>>, <<UnitCost, VarCost>>}

\* the default profit lambda a, t: 1
UnitProfit == [pr \in Pairs |-> 1]

\* the profit table of main()
MainProfit ==
    [pr \in Pairs |->
        CASE pr = <<"a", "t1">> -> 3
          [] pr = <<"b", "t1">> -> 1
          [] pr = <<"c", "t1">> -> 2
          [] pr = <<"a", "t2">> -> 1
          [] pr = <<"b", "t2">> -> 3
          [] pr = <<"c", "t2">> -> 2]

\* a profit table with a worthless pair, where the fairest choice is not the
\* most profitable one
SkewProfit ==
    [pr \in Pairs |->
        CASE pr = <<"a", "t1">> -> 3
          [] pr = <<"a", "t2">> -> 1
          [] pr = <<"b", "t1">> -> 1
          [] OTHER -> 0]

ProfitTables == {UnitProfit, MainProfit, SkewProfit}

NoHard == [x \in {} |-> {}]

HardChoices ==
    { NoHard,
      [x \in {"a"} |-> {"t1"}],
      [x \in {"a"} |-> {"t1", "t2"}] }

MainAgentBudget == [x \in AllAgents |-> IF x = "b" THEN 2 ELSE 1]
MainTaskBudget == [t \in AllTasks |-> 2]

----------------------------------------------------------------------------
(* Helper functions                                                        *)

RECURSIVE Sum(_)
Sum(f) ==
    IF DOMAIN f = {} THEN 0
    ELSE LET x == CHOOSE y \in DOMAIN f : TRUE
         IN  f[x] + Sum([y \in (DOMAIN f) \ {x} |-> f[y]])

Min(S) == CHOOSE x \in S : \A y \in S : x <= y

calc_agent_budget(agent, assignment) ==
    LET budget_spent == Sum([t \in assignment[agent] |-> agent_cost[<<agent, t>>]])
    IN  agent_budget[agent] - budget_spent

calc_task_budget(task, assignment) ==
    LET agents_assigned == {x \in DOMAIN assignment : task \in assignment[x]}
        budget_spent == Sum([x \in agents_assigned |-> task_cost[<<x, task>>]])
    IN  task_budget[task] - budget_spent

AssignedPairs(assignment) ==
    {pr \in (DOMAIN assignment) \X AllTasks : pr[2] \in assignment[pr[1]]}

calc_profit(assignment) ==
    Sum([pr \in AssignedPairs(assignment) |-> profit[pr]])

calc_fair_profit(assignment) ==
    LET fp == [t \in tasks |->
                 Sum([x \in {y \in DOMAIN assignment : t \in assignment[y]}
                        |-> profit[<<x, t>>]])]
    IN  Min({fp[t] : t \in tasks})

\* is_complete with the loop over the tasks forgotten
is_complete_agents_only(assignment) ==
    \A x \in agents : calc_agent_budget(x, assignment) = 0

is_complete(assignment) ==
    /\ \A x \in agents : calc_agent_budget(x, assignment) = 0
    /\ \A t \in tasks : calc_task_budget(t, assignment) = 0

\* fair_profit[task] += ... raises KeyError for a task outside self.tasks
FairProfitRaisesNever(assignment) == FALSE

FairProfitRaises(assignment) ==
    \E x \in DOMAIN assignment : ~(assignment[x] \subseteq tasks)

\* assign_agent without the check of the agent's remaining budget
assign_agent_no_agent_check(agent, assignment) ==
    LET not_twice == {t \in tasks : t \notin assignment[agent]}
    IN  {t \in not_twice : task_cost[<<agent, t>>] <= calc_task_budget(t, assignment)}

\* assign_agent without the check of the task's remaining budget
assign_agent_no_task_check(agent, assignment) ==
    LET remaining_budget == calc_agent_budget(agent, assignment)
        tasks_in_budget == {t \in tasks : agent_cost[<<agent, t>>] <= remaining_budget}
    IN  {t \in tasks_in_budget : t \notin assignment[agent]}

assign_agent(agent, assignment) ==
    LET remaining_budget == calc_agent_budget(agent, assignment)
        tasks_in_budget == {t \in tasks : agent_cost[<<agent, t>>] <= remaining_budget}
        not_twice == {t \in tasks_in_budget : t \notin assignment[agent]}
    IN  {t \in not_twice : task_cost[<<agent, t>>] <= calc_task_budget(t, assignment)}

\* the order of sorted() on the task names
TaskRank == [t \in AllTasks |-> IF t = "t1" THEN 1 ELSE 2]

RECURSIVE sorted(_)
sorted(S) ==
    IF S = {} THEN <<>>
    ELSE LET first == CHOOSE t \in S : \A u \in S : TaskRank[t] <= TaskRank[u]
         IN  <<first>> \o sorted(S \ {first})

\* the list assign_agent returns: sorted(possible_tasks)
assign_agent_list(agent, assignment) == sorted(assign_agent(agent, assignment))

----------------------------------------------------------------------------
(* Main functions                                                          *)

\* init_dict[a] raises KeyError for a hard-assigned agent outside self.agents
InitRaises == ~(DOMAIN hard_assignment \subseteq agents)

initialize_assignment ==
    [x \in agents |->
        IF x \in DOMAIN hard_assignment THEN {} \cup hard_assignment[x] ELSE {}]

InitProfit(s) == 0

\* the agent's task set replaced by the new task instead of extended by it
NextAssignmentReplacing(current, agent, task) ==
    [current EXCEPT ![agent] = {task}]

NextAssignment(current, agent, task) ==
    [current EXCEPT ![agent] = current[agent] \cup {task}]

\* any open node instead of one of maximal cached profit
AnyOpen(open, prof) == open

\* max(open_set, key=profits[n]): any member of maximal cached profit, as the
\* iteration order of a set of frozendicts is not fixed
MostPromising(open, prof) ==
    {n \in open : \A m \in open : prof[m] <= prof[n]}

Successors(current) ==
    UNION { {NextAssignment(current, x, t) : t \in assign_agent(x, current)} :
            x \in agents }

\* assignment_finished decided by one agent instead of by all of them
AssignmentFinishedForSome(current) ==
    \E x \in agents : assign_agent(x, current) = {}

AssignmentFinished(current) ==
    \A x \in agents : assign_agent(x, current) = {}

Recorded(current) ==
    AssignmentFinished(current) /\ ~(complete /\ ~is_complete(current))

\* the tie-break of the fair procedure with >= for >
NewBestFairOrEqual(cur_fair_profit, p) ==
    \/ cur_fair_profit > fair_profit
    \/ cur_fair_profit = fair_profit /\ p >= max_profit

NewBestFair(cur_fair_profit, p) ==
    \/ cur_fair_profit > fair_profit
    \/ cur_fair_profit = fair_profit /\ p > max_profit

\* the tie test of the plain procedure used in the fair one
TieFairProfitOnly(cur_fair_profit, p) ==
    verbose /\ p >= max_profit

TieFair(cur_fair_profit, p) ==
    verbose /\ p >= max_profit /\ cur_fair_profit >= fair_profit

\* the plain procedure with >= for >
NewBestPlainOrEqual(p) == p >= max_profit

\* the profit compared with fair_profit instead of max_profit
NewBestPlainWrongBest(p) == p > fair_profit

NewBestPlain(p) == p > max_profit

\* max_profit only ever raised, instead of taken from the new best
NewMaxProfitKeepLarger(p) == IF p > max_profit THEN p ELSE max_profit

\* self.max_profit = profits[current]
NewMaxProfit(p) == p

\* the check against the closed set forgotten
AlreadyExploredNever(next_assignment, closed) == FALSE

AlreadyExplored(next_assignment, closed) == next_assignment \in closed

TiePlain(p) == verbose /\ p >= max_profit

\* open_set.remove(current) forgotten
RemoveCurrentForgotten(open, current) == open

RemoveCurrent(open, current) == open \ {current}

Note(kind, a, p) == [kind |-> kind, a |-> a, profit |-> p]

\* one iteration of the while loop of assign()
Iterate(current) ==
    /\ pc = "assign"
    /\ open_set # {}
    /\ current \in MostPromising(open_set, profits)
    /\ LET closed1 == closed_set \cup {current}
           new == {n \in Successors(current) : ~AlreadyExplored(n, closed1)}
           p == profits[current]
           f == calc_fair_profit(current)
       IN  /\ closed_set' = closed1
           /\ open_set' = RemoveCurrent(open_set, current) \cup new
           /\ profits' = [n \in (DOMAIN profits) \cup new |->
                            IF n \in new THEN calc_profit(n) ELSE profits[n]]
           /\ IF ~Recorded(current)
              THEN UNCHANGED <<finished_assignments, max_profit, fair_profit, printed, pc>>
              ELSE /\ finished_assignments' = Append(finished_assignments, <<current, p>>)
                   /\ IF fair /\ FairProfitRaises(current)
                      THEN /\ pc' = "error"
                           /\ UNCHANGED <<fair_profit, max_profit, printed>>
                      ELSE
                      /\ pc' = pc
                      /\ IF fair
                         THEN IF NewBestFair(f, p)
                              THEN /\ fair_profit' = f
                                   /\ max_profit' = NewMaxProfit(p)
                                   /\ printed' = Append(printed, Note("best", current, p))
                              ELSE /\ UNCHANGED <<fair_profit, max_profit>>
                                   /\ printed' = IF TieFair(f, p)
                                                 THEN Append(printed, Note("tie", current, p))
                                                 ELSE printed
                         ELSE IF NewBestPlain(p)
                              THEN /\ max_profit' = NewMaxProfit(p)
                                   /\ printed' = Append(printed, Note("best", current, p))
                                   /\ UNCHANGED fair_profit
                              ELSE /\ UNCHANGED <<fair_profit, max_profit>>
                                   /\ printed' = IF TiePlain(p)
                                                 THEN Append(printed, Note("tie", current, p))
                                                 ELSE printed
    /\ UNCHANGED <<inputs, stats>>

Search == \E current \in open_set : Iterate(current)

max_assignments ==
    LET IsMax(e) == e[2] = max_profit
        sel == SelectSeq(finished_assignments, IsMax)
    IN  [i \in 1..Len(sel) |-> sel[i][1]]

print_stats ==
    [ total |-> Len(finished_assignments),
      best |-> max_profit,
      count |-> Len(max_assignments),
      example |-> IF max_assignments # <<>> THEN <<max_assignments[1]>> ELSE <<>> ]

\* the while loop has ended: __init__ prints the statistics when verbose
Finish ==
    /\ pc = "assign"
    /\ open_set = {}
    /\ pc' = "done"
    /\ stats' = IF verbose THEN <<print_stats>> ELSE <<>>
    /\ UNCHANGED <<inputs, finished_assignments, max_profit, fair_profit,
                   open_set, closed_set, profits, printed>>

----------------------------------------------------------------------------
(* Construction                                                            *)

Start ==
    /\ finished_assignments = <<>>
    /\ max_profit = 0
    /\ fair_profit = 0
    /\ open_set = {initialize_assignment}
    /\ closed_set = {}
    /\ profits = [s \in {initialize_assignment} |-> InitProfit(s)]
    /\ printed = <<>>
    /\ stats = <<>>
    /\ pc = "assign"

\* two agents with any budgets up to MaxBudget, two tasks of one budget up to MaxBudget
InitFamily ==
    /\ agents = {"a", "b"}
    /\ tasks = AllTasks
    /\ agent_budget \in [{"a", "b"} -> 0..MaxBudget]
    /\ \E n \in 1..MaxBudget : task_budget = [t \in AllTasks |-> n]
    /\ \E cc \in CostChoices : agent_cost = cc[1] /\ task_cost = cc[2]
    /\ profit \in ProfitTables
    /\ hard_assignment \in HardChoices
    /\ complete \in BOOLEAN
    /\ fair \in BOOLEAN
    /\ verbose \in BOOLEAN

\* the instance of main(): complete and fair set, verbose left at its default
InitMain ==
    /\ agents = AllAgents
    /\ tasks = AllTasks
    /\ agent_budget = MainAgentBudget
    /\ task_budget = MainTaskBudget
    /\ agent_cost = UnitCost
    /\ task_cost = UnitCost
    /\ profit = MainProfit
    /\ hard_assignment = NoHard
    /\ complete = TRUE
    /\ fair = TRUE
    /\ verbose = TRUE

Init == (InitFamily \/ InitMain) /\ Start

\* __init__ left by the KeyError of initialize_assignment: assign() is never called
Aborted ==
    /\ finished_assignments = <<>>
    /\ max_profit = 0
    /\ fair_profit = 0
    /\ open_set = {}
    /\ closed_set = {}
    /\ profits = <<>>
    /\ printed = <<>>
    /\ stats = <<>>
    /\ pc = "error"

\* hard assignments that name task t2 or agent c where neither is declared
UndeclaredHardChoices ==
    { [x \in {"a"} |-> {"t2"}],
      [x \in {"a"} |-> {"t1", "t2"}],
      [x \in {"c"} |-> {"t1"}],
      [x \in {"a", "c"} |-> {"t1"}] }

\* two agents and the one task t1; the caller's cost and profit functions
\* accept every pair
InitUndeclared ==
    /\ agents = {"a", "b"}
    /\ tasks = {"t1"}
    /\ agent_budget \in [{"a", "b"} -> 0..MaxBudget]
    /\ \E n \in 1..MaxBudget : task_budget = [t \in {"t1"} |-> n]
    /\ \E cc \in CostChoices : agent_cost = cc[1] /\ task_cost = cc[2]
    /\ profit \in ProfitTables
    /\ hard_assignment \in UndeclaredHardChoices
    /\ complete \in BOOLEAN
    /\ fair \in BOOLEAN
    /\ verbose \in BOOLEAN
    /\ IF InitRaises THEN Aborted ELSE Start

Next == Search \/ Finish

Spec == Init /\ [][Next]_vars

\* the runs whose hard assignment names an undeclared agent or task
SpecUndeclared == InitUndeclared /\ [][Next]_vars

\* The loop of assign() runs without stopping until the open set is empty.
\* Runs with the default verbose = True: the flag only adds output.
InitVerbose == Init /\ verbose = TRUE

FairSpec == InitVerbose /\ [][Next]_vars /\ WF_vars(Next)

----------------------------------------------------------------------------
(* Reference notions the properties are stated with, computed by           *)
(* enumeration and independently of the search                             *)

FinishedKeys == {finished_assignments[i][1] : i \in 1..Len(finished_assignments)}

RecordedProfit(s) ==
    LET i == CHOOSE j \in 1..Len(finished_assignments) : finished_assignments[j][1] = s
    IN  finished_assignments[i][2]

RECURSIVE SetSum(_, _)
SetSum(S, f) ==
    IF S = {} THEN 0
    ELSE LET x == CHOOSE y \in S : TRUE IN f[x] + SetSum(S \ {x}, f)

RemainingAgentBudget(x, s) ==
    agent_budget[x] - SetSum({<<x, t>> : t \in s[x]}, agent_cost)

RemainingTaskBudget(t, s) ==
    task_budget[t] - SetSum({<<x, t>> : x \in {y \in DOMAIN s : t \in s[y]}}, task_cost)

Feasible(s, x, t) ==
    /\ t \notin s[x]
    /\ agent_cost[<<x, t>>] <= RemainingAgentBudget(x, s)
    /\ task_cost[<<x, t>>] <= RemainingTaskBudget(t, s)

Terminal(s) == \A x \in agents : \A t \in tasks : ~Feasible(s, x, t)

ZeroSlack(s) ==
    /\ \A x \in agents : RemainingAgentBudget(x, s) = 0
    /\ \A t \in tasks : RemainingTaskBudget(t, s) = 0

WithinBudget(s) ==
    /\ \A x \in agents : RemainingAgentBudget(x, s) >= 0
    /\ \A t \in tasks : RemainingTaskBudget(t, s) >= 0

TotalProfit(s) ==
    SetSum({<<x, t>> \in agents \X tasks : t \in s[x]}, profit)

FairProfit(s) ==
    Min({SetSum({<<x, t>> : x \in {y \in agents : t \in s[y]}}, profit) : t \in tasks})

InitialState ==
    [x \in agents |-> IF x \in DOMAIN hard_assignment THEN hard_assignment[x] ELSE {}]

RECURSIVE ReachFrom(_, _)
ReachFrom(frontier, seen) ==
    IF frontier = {} THEN seen
    ELSE LET step(s) == { [s EXCEPT ![pr[1]] = s[pr[1]] \cup {pr[2]}] :
                            pr \in {q \in agents \X tasks : Feasible(s, q[1], q[2])} }
             nxt == (UNION {step(s) : s \in frontier}) \ seen
         IN  ReachFrom(nxt, seen \cup nxt)

\* the states reachable from the initial state by feasible single additions
Reachable == ReachFrom({InitialState}, {InitialState})

\* the reachable terminal states that pass the complete filter when it is active
Results == {s \in Reachable : Terminal(s) /\ (complete => ZeroSlack(s))}

NonNegProfits == \A x \in agents : \A t \in tasks : profit[<<x, t>>] >= 0

LexLeq(p, q) == p[1] < q[1] \/ (p[1] = q[1] /\ p[2] <= q[2])

LexLess(p, q) == p[1] < q[1] \/ (p[1] = q[1] /\ p[2] < q[2])

Score(s) == <<FairProfit(s), TotalProfit(s)>>

RunEnded == open_set = {}

----------------------------------------------------------------------------
(* C1: with non-negative profits, when the run has ended max_profit is the *)
(* greatest total profit among the reachable terminal states that satisfy  *)
(* the active constraints (the complete filter and, in fair mode, having   *)
(* the best fair profit among those), and none of them exceeds it.         *)

Constrained ==
    {s \in Results : fair => \A r \in Results : FairProfit(r) <= FairProfit(s)}

C1_MaxProfitIsOptimum ==
    (RunEnded /\ NonNegProfits) =>
        /\ \A s \in Constrained : TotalProfit(s) <= max_profit
        /\ Constrained # {} => \E s \in Constrained : TotalProfit(s) = max_profit

(* C2: in fair mode, when the run has ended <<fair_profit, max_profit>> is *)
(* the lexicographic maximum of <<fair profit, total profit>> over the     *)
(* reachable terminal states that pass the complete filter.                *)

C2_FairBestIsLexMax ==
    (RunEnded /\ fair /\ Results # {}) =>
        /\ \A s \in Results : LexLeq(Score(s), <<fair_profit, max_profit>>)
        /\ \E s \in Results : Score(s) = <<fair_profit, max_profit>>

(* C4: only reachable terminal states that pass the complete filter are    *)
(* ever recorded, and when the run has ended every one of them is.         *)

C4_FinishedAreTheResults ==
    /\ FinishedKeys \subseteq Results
    /\ RunEnded => FinishedKeys = Results

C4_Witness ==
    /\ RunEnded
    /\ complete
    /\ Cardinality(FinishedKeys) >= 2
    /\ \E s \in Reachable : Terminal(s) /\ ~ZeroSlack(s)

(* C3: the search loop terminates: the open set eventually becomes empty. *)
(* Stated for the loop running without stopping (FairSpec).                *)

C3_Terminates == <>(open_set = {})

C3_Witness == open_set = {} /\ Cardinality(closed_set) >= 4

(* C5: with complete set, every recorded state has remaining budget zero   *)
(* for every agent and task, and expanding a terminal state with some      *)
(* non-zero remaining budget leaves finished_assignments, max_profit and   *)
(* fair_profit as they were.                                               *)

Expanded(s) == s \in closed_set' /\ s \notin closed_set

C5_CompleteFilter ==
    /\ [](complete => \A s \in FinishedKeys : ZeroSlack(s))
    /\ [][ (complete /\ \E s \in closed_set' : Expanded(s) /\ Terminal(s) /\ ~ZeroSlack(s))
             => UNCHANGED <<finished_assignments, max_profit, fair_profit>> ]_vars

C5_Witness ==
    /\ complete
    /\ Len(finished_assignments) >= 1
    /\ \E s \in closed_set : Terminal(s) /\ ~ZeroSlack(s) /\ s \notin FinishedKeys

(* C6: with non-negative costs, every recorded state has remaining budget  *)
(* >= 0 for every agent and task, whatever the hard assignment.            *)

CostsNonNeg ==
    \A x \in agents : \A t \in tasks :
        agent_cost[<<x, t>>] >= 0 /\ task_cost[<<x, t>>] >= 0

C6_FinishedWithinBudget ==
    CostsNonNeg => \A s \in FinishedKeys : WithinBudget(s)

(* C6, amended: with non-negative costs and hard assignments that do not   *)
(* themselves exceed a budget, every recorded state has remaining budget   *)
(* >= 0 for every agent and task.                                          *)

C6_FinishedWithinBudgetIfStartIs ==
    (CostsNonNeg /\ WithinBudget(InitialState)) =>
        \A s \in FinishedKeys : WithinBudget(s)

C6_Witness ==
    /\ hard_assignment # NoHard
    /\ WithinBudget(InitialState)
    /\ Len(finished_assignments) >= 2
    /\ \E s \in FinishedKeys : s # InitialState /\ \E x \in agents : RemainingAgentBudget(x, s) = 0

(* C7: in fair mode the new bests of a run are strictly increasing in the  *)
(* lexicographic order of <<fair profit, total profit>>.                   *)

IsBest(i) == printed[i].kind = "best"

C7_BestsIncrease ==
    fair => \A i, j \in 1..Len(printed) :
                (i < j /\ IsBest(i) /\ IsBest(j)) =>
                    LexLess(Score(printed[i].a), Score(printed[j].a))

C7_Witness ==
    /\ fair
    /\ \E i, j \in 1..Len(printed) :
          /\ i < j /\ IsBest(i) /\ IsBest(j)
          /\ FairProfit(printed[i].a) = FairProfit(printed[j].a)
          /\ TotalProfit(printed[i].a) < TotalProfit(printed[j].a)

(* C8: every state in the open set, the closed set or finished_assignments *)
(* holds every hard-assigned pair.                                         *)

HoldsHard(s) == \A x \in DOMAIN hard_assignment : hard_assignment[x] \subseteq s[x]

C8_HardKept ==
    \A s \in open_set \cup closed_set \cup FinishedKeys : HoldsHard(s)

C8_Witness ==
    /\ hard_assignment # NoHard
    /\ Cardinality(closed_set) >= 3
    /\ \E s \in FinishedKeys : s # InitialState

(* C9: the statistics count the finished assignments that achieve the      *)
(* final best (in fair mode: fair profit equal to fair_profit and recorded *)
(* profit equal to max_profit), and the example is one of those.           *)

Achievers ==
    { i \in 1..Len(finished_assignments) :
        /\ finished_assignments[i][2] = max_profit
        /\ fair => FairProfit(finished_assignments[i][1]) = fair_profit }

C9_StatsCountTheBest ==
    (pc = "done" /\ stats # <<>>) =>
        /\ stats[1].count = Cardinality(Achievers)
        /\ stats[1].example # <<>> =>
              \E i \in Achievers : finished_assignments[i][1] = stats[1].example[1]

Aux_C9 == ~fair => C9_StatsCountTheBest

(* C10: every entry of finished_assignments maps its state to the sum of   *)
(* the profits of the pairs in it.                                         *)

C10_RecordedProfitIsTotal ==
    \A i \in 1..Len(finished_assignments) :
        finished_assignments[i][2] = TotalProfit(finished_assignments[i][1])

\* C1, C2 and C10 outside the one case that breaks them: a terminal initial
\* state that holds hard assignments, whose cached profit is 0
HardTerminalStart == Terminal(InitialState) /\ TotalProfit(InitialState) # 0

Aux_C1 == ~HardTerminalStart => C1_MaxProfitIsOptimum
Aux_C2 == ~HardTerminalStart => C2_FairBestIsLexMax
Aux_C10 == ~HardTerminalStart => C10_RecordedProfitIsTotal
Aux_C1Literal ==
    (RunEnded /\ NonNegProfits /\ ~HardTerminalStart) =>
        /\ \A s \in Results : TotalProfit(s) <= max_profit
        /\ Results # {} => \E s \in Results : TotalProfit(s) = max_profit

----------------------------------------------------------------------------
(* C11: if the hard assignments already violate a budget, the run raises   *)
(* no error and the initial state is the only state of the search: no      *)
(* successor is generated and no other state is expanded or recorded.      *)

SearchStates == open_set \cup closed_set \cup FinishedKeys

C11_OverBudgetStartIsOnlyState ==
    ~WithinBudget(InitialState) =>
        /\ pc # "error"
        /\ SearchStates \subseteq {InitialState}

(* C11, amended: if the hard assignments already violate a budget, the run *)
(* raises no error; an agent whose remaining budget is negative in the     *)
(* initial state gets no further task and a task whose remaining budget is *)
(* negative gets no further agent, while the other agents and tasks are    *)
(* searched as usual. The initial state is the only state of the search    *)
(* exactly when no pair is feasible in it.                                 *)

HoldersOf(t, s) == {x \in agents : t \in s[x]}

C11_OverBudgetPartsFrozen ==
    ~WithinBudget(InitialState) =>
        /\ pc # "error"
        /\ \A s \in SearchStates :
              /\ \A x \in agents :
                    RemainingAgentBudget(x, InitialState) < 0 => s[x] = InitialState[x]
              /\ \A t \in tasks :
                    RemainingTaskBudget(t, InitialState) < 0 =>
                        HoldersOf(t, s) = HoldersOf(t, InitialState)
        /\ Terminal(InitialState) => SearchStates \subseteq {InitialState}
        /\ (~Terminal(InitialState) /\ closed_set # {}) =>
              \E s \in SearchStates : s # InitialState

C11_Witness ==
    /\ ~WithinBudget(InitialState)
    /\ \E t \in tasks : RemainingTaskBudget(t, InitialState) < 0
    /\ \E s \in FinishedKeys : s # InitialState

(* C12: for every agent and every state of the search, assign_agent        *)
(* returns exactly the tasks the agent does not hold whose agent-side cost *)
(* fits the agent's remaining budget and whose task-side cost fits the     *)
(* task's remaining budget, each once and none already held.               *)

Range(q) == {q[i] : i \in 1..Len(q)}

C12_AssignAgentIsFeasibleSet ==
    \A s \in open_set \cup closed_set : \A x \in agents :
        LET r == assign_agent_list(x, s)
        IN  /\ Range(r) = {t \in tasks : Feasible(s, x, t)}
            /\ Len(r) = Cardinality(Range(r))
            /\ Range(r) \cap s[x] = {}

C12_Witness ==
    \E s \in closed_set :
        /\ \E x \in agents : s[x] # {} /\ assign_agent_list(x, s) # <<>>
        /\ \E y \in agents : \E t \in tasks \ s[y] : t \notin Range(assign_agent_list(y, s))

(* C13: a hard assignment that names an undeclared agent or task aborts    *)
(* the run with an error, and no state that contains an undeclared agent   *)
(* or task is ever expanded or recorded. Checked on SpecUndeclared.        *)

Declared(s) == DOMAIN s \subseteq agents /\ \A x \in DOMAIN s : s[x] \subseteq tasks

HardUndeclaredTask ==
    \E x \in DOMAIN hard_assignment : ~(hard_assignment[x] \subseteq tasks)

C13_UndeclaredIsFatal ==
    (InitRaises \/ HardUndeclaredTask) =>
        /\ pc # "done"
        /\ \A s \in closed_set \cup FinishedKeys : Declared(s)

(* C13, amended: a hard assignment that names an undeclared agent aborts   *)
(* construction with an error before any state is expanded or recorded. A  *)
(* hard assignment that names an undeclared task of a declared agent is    *)
(* not rejected: every state of the search contains the task; with cost    *)
(* and profit functions that accept it a plain run completes without       *)
(* error, and a fair run fails in calc_fair_profit at the first terminal   *)
(* state that passes the complete filter, after recording that state.      *)

C13_UndeclaredAgentFatalTaskNot ==
    /\ InitRaises =>
          /\ pc = "error"
          /\ open_set = {} /\ closed_set = {} /\ finished_assignments = <<>>
    /\ (~InitRaises /\ HardUndeclaredTask) =>
          /\ \A s \in SearchStates : ~Declared(s)
          /\ ~fair => pc # "error"
          /\ fair =>
                /\ Len(finished_assignments) <= 1
                /\ pc = "error" <=> Len(finished_assignments) = 1
                /\ printed = <<>> /\ max_profit = 0 /\ fair_profit = 0

C13_Witness ==
    /\ ~InitRaises
    /\ fair
    /\ pc = "error"
    /\ Cardinality(closed_set) >= 2
    /\ open_set # {}

(* C14: in plain mode max_profit changes only when a terminal state with  *)
(* a recorded profit above it is recorded, and then becomes that profit;   *)
(* it never decreases, the new-best notifications carry strictly           *)
(* increasing profits, and fair_profit stays 0.                            *)

JustRecorded == Len(finished_assignments') = Len(finished_assignments) + 1

LastRecorded == finished_assignments'[Len(finished_assignments')]

C14_PlainBestMonotone ==
    /\ [](~fair =>
            /\ fair_profit = 0
            /\ \A i, j \in 1..Len(printed) :
                  (i < j /\ IsBest(i) /\ IsBest(j)) => printed[i].profit < printed[j].profit)
    /\ [][ ~fair =>
            /\ max_profit' >= max_profit
            /\ max_profit' # max_profit =>
                  /\ JustRecorded
                  /\ Terminal(LastRecorded[1])
                  /\ LastRecorded[2] > max_profit
            /\ (JustRecorded /\ LastRecorded[2] > max_profit) =>
                  max_profit' = LastRecorded[2] ]_vars

C14_Witness ==
    /\ ~fair
    /\ \E i, j \in 1..Len(printed) : i < j /\ IsBest(i) /\ IsBest(j)
    /\ \E i \in 1..Len(finished_assignments) : finished_assignments[i][2] < max_profit

(* C15: the open and the closed set are disjoint, a closed state never     *)
(* returns to the open set, every iteration expands a state that was not   *)
(* expanded before, and no state is recorded twice.                        *)

C15_ExploredOnce ==
    /\ [](/\ open_set \cap closed_set = {}
          /\ \A i, j \in 1..Len(finished_assignments) :
                finished_assignments[i][1] = finished_assignments[j][1] => i = j)
    /\ [][ /\ closed_set \subseteq closed_set'
           /\ closed_set \cap open_set' = {}
           /\ pc' = "assign" =>
                 \E s \in open_set : s \notin closed_set /\ closed_set' = closed_set \cup {s} ]_vars

OneMore(s, n) ==
    \E x \in agents : \E t \in tasks \ s[x] :
        /\ n[x] = s[x] \cup {t}
        /\ \A y \in agents \ {x} : n[y] = s[y]

C15_Witness ==
    \E n \in FinishedKeys :
        Cardinality({s \in closed_set : OneMore(s, n)}) >= 2

(* C16: a tie notification is emitted only when verbose is set and only    *)
(* for a terminal state whose profit equals max_profit and, in fair mode,  *)
(* whose fair profit equals fair_profit; it leaves both bests unchanged.   *)

JustPrinted == Len(printed') = Len(printed) + 1

LastPrinted == printed'[Len(printed')]

C16_TiesAreExact ==
    /\ [](\A i \in 1..Len(printed) : printed[i].kind = "tie" => verbose)
    /\ [][ (JustPrinted /\ LastPrinted.kind = "tie") =>
              /\ verbose
              /\ Terminal(LastPrinted.a)
              /\ TotalProfit(LastPrinted.a) = max_profit
              /\ fair => FairProfit(LastPrinted.a) = fair_profit
              /\ UNCHANGED <<max_profit, fair_profit>> ]_vars

\* what does hold: the same with the profit the notification carries, which
\* is the cached one, in place of the state's total profit
Aux_C16 ==
    /\ [](\A i \in 1..Len(printed) : printed[i].kind = "tie" => verbose)
    /\ [][ (JustPrinted /\ LastPrinted.kind = "tie") =>
              /\ verbose
              /\ Terminal(LastPrinted.a)
              /\ LastPrinted.profit = max_profit
              /\ LastPrinted.a # InitialState => TotalProfit(LastPrinted.a) = max_profit
              /\ fair => FairProfit(LastPrinted.a) = fair_profit
              /\ UNCHANGED <<max_profit, fair_profit>> ]_vars

(* C17: every successor generated from the expanded state equals it except *)
(* that one agent's task set has gained one task; the expanded state goes  *)
(* into the closed set, and into finished_assignments, as it was.          *)

C17_SuccessorAddsOnePair ==
    [][ \A cur \in closed_set' \ closed_set :
          /\ cur \in open_set
          /\ closed_set' = closed_set \cup {cur}
          /\ \A n \in open_set' \ open_set : DOMAIN n = DOMAIN cur /\ OneMore(cur, n)
          /\ finished_assignments' # finished_assignments =>
                finished_assignments' = Append(finished_assignments, <<cur, profits[cur]>>) ]_vars

C17_Witness ==
    \E cur \in closed_set : \E n \in open_set :
        /\ OneMore(cur, n)
        /\ \E x \in agents : cur[x] # {} /\ n[x] # cur[x]
        /\ \E y \in agents : cur[y] # {} /\ n[y] = cur[y]

(* C18: the state selected in an iteration has a cached profit at least    *)
(* that of every open state, and the cached profit of every open state     *)
(* other than the initial one is its total profit.                         *)

C18_BestFirst ==
    /\ [](\A s \in open_set : s # InitialState => profits[s] = TotalProfit(s))
    /\ [][ \A cur \in closed_set' \ closed_set :
              \A m \in open_set : profits[m] <= profits[cur] ]_vars

C18_Witness ==
    /\ Cardinality(closed_set) >= 2
    /\ \E s, m \in open_set : profits[s] < profits[m]

(* C19: the final finished_assignments (states and recorded profits),      *)
(* max_profit and fair_profit are the same for every way of breaking ties  *)
(* and every iteration order: when the run has ended they equal values     *)
(* that depend on the problem instance and the flags alone.                *)

\* recorded profit of a result, by the instance alone
ProfitOf(s) == IF s = InitialState THEN 0 ELSE TotalProfit(s)

\* scores of the results, with the initial bests, by the instance alone
FinalScores ==
    {<<0, 0>>} \cup {<<IF fair THEN FairProfit(s) ELSE 0, ProfitOf(s)>> : s \in Results}

FinalBest == CHOOSE b \in FinalScores : \A c \in FinalScores : LexLeq(c, b)

C19_FinalValuesIndependentOfOrder ==
    RunEnded =>
        /\ FinishedKeys = Results
        /\ Len(finished_assignments) = Cardinality(Results)
        /\ \A s \in Results : RecordedProfit(s) = ProfitOf(s)
        /\ <<fair_profit, max_profit>> = FinalBest

C19_Witness ==
    /\ RunEnded
    /\ \E i, j \in 1..Len(finished_assignments) :
          /\ i # j
          /\ finished_assignments[i][2] = finished_assignments[j][2]
          /\ finished_assignments[i][2] < max_profit
    /\ \E i \in 1..Len(finished_assignments) :
          finished_assignments[i][2] = max_profit /\ i < Len(finished_assignments)

(* C20: either max_profit and fair_profit are both still 0, or some        *)
(* recorded state has max_profit as its recorded profit and, in fair mode, *)
(* fair_profit as its fair profit.                                         *)

C20_BestIsAttained ==
    \/ max_profit = 0 /\ fair_profit = 0
    \/ \E i \in 1..Len(finished_assignments) :
          /\ finished_assignments[i][2] = max_profit
          /\ fair => FairProfit(finished_assignments[i][1]) = fair_profit

\* fair mode, after a new best of smaller total profit replaced an earlier one
C20_Witness ==
    /\ fair
    /\ fair_profit > 0
    /\ \E i \in 1..Len(finished_assignments) : finished_assignments[i][2] > max_profit

====
